---- MODULE Spec2Model ----
(***************************************************************************)
(* A model of the slur crate: the wrapping 32-bit accumulators (BlurU32,   *)
(* u32xN), the packed-ARGB adapter (Argb), the streaming Stackblur engine  *)
(* (StackBlur) and the separable 2D drivers (blur, simd_blur, blur_argb,   *)
(* simd_blur_argb).                                                        *)
(*                                                                         *)
(* Machine integers are kept at their width.  A u32 is a pair of 16-bit    *)
(* halves and a usize (64-bit target) four of them, least significant     *)
(* first, so that wrap-around, truncating casts and the byte order of      *)
(* to_be_bytes are computed and not assumed.                               *)
(***************************************************************************)
EXTENDS Integers, Sequences, FiniteSets, TLC

VARIABLES
    entry,       \* the entry point called: "blur", "blur_argb", "simd_blur_argb"
    radius,      \* the radius argument
    buffer,      \* the ImgRefMut: [width, height, buf: coordinate -> pixel]
    pc,          \* "pass1", "pass2": the pass running; "done"; "panicked"; "ops"
    win,         \* index of the window (row/column group) zipped next
    place,       \* places of the current window already written
    blur_it,     \* the StackBlur of the current window, or NoBlur
    ops_simd,    \* the scratch VecDeque of the lane-packed engine
    ops_single,  \* the scratch VecDeque of the scalar engine (`ops` in blur)
    hist,        \* history of the run, kept for the properties only
    op           \* the accumulator operation applied (the pure-function runs)

vars == <<entry, radius, buffer, pc, win, place, blur_it, ops_simd, ops_single,
          hist, op>>

----------------------------------------------------------------------------
(* Bounds of the model.                                                    *)

MaxWidth == 3
MaxHeight == 3
MaxArea == 4
MaxRadius == 2

(* The lane count simd_blur_argb is instantiated with.                     *)
LANES == 2

----------------------------------------------------------------------------
(* Fixed-width unsigned integers.  H is the base of one half-word.         *)

H == 65536

(* A number below 2^31 as a u32 and as a usize.                            *)
u32(x) == <<x % H, x \div H>>
usize(x) == <<x % H, x \div H, 0, 0>>

(* x * y for half-words x, y, as a u32; no intermediate exceeds 2^25.      *)
Mul16(x, y) ==
    LET p0 == x * (y % 256)
        p1 == x * (y \div 256)
        l  == p0 + (p1 % 256) * 256
    IN  <<l % H, (p1 \div 256 + l \div H) % H>>

(* x * y in usize arithmetic, for x, y below 2^18 (radius + 1 and the      *)
(* like); no intermediate exceeds 2^28.                                    *)
usize_mul(x, y) ==
    LET p0 == x * (y % 512)
        p1 == x * (y \div 512)
        l  == p0 + (p1 % 128) * 512
        r  == p1 \div 128 + l \div H
    IN  <<l % H, r % H, r \div H, 0>>

(* The casts of the source.                                                *)
usize_as_u32(x) == <<x[1], x[2]>>
u32_as_usize(x) == <<x[1], x[2], 0, 0>>
u32_as_u8(x) == x[1] % 256
u8_as_u32(b) == <<b, 0>>

(* u32::to_be_bytes and u32::from_be_bytes: most significant byte first.   *)
to_be_bytes(x) == <<x[2] \div 256, x[2] % 256, x[1] \div 256, x[1] % 256>>
from_be_bytes(b) == <<b[3] * 256 + b[4], b[1] * 256 + b[2]>>
to_le_bytes(x) == <<x[1] % 256, x[1] \div 256, x[2] % 256, x[2] \div 256>>

(* u32::wrapping_add, wrapping_sub, wrapping_mul.                          *)
wrapping_add(a, b) ==
    LET lo == a[1] + b[1]
        hi == a[2] + b[2] + lo \div H
    IN  <<lo % H, hi % H>>

wrapping_sub(a, b) ==
    LET lo == a[1] - b[1]
        hi == a[2] - b[2] - (IF lo < 0 THEN 1 ELSE 0)
    IN  <<(lo + H) % H, (hi + H) % H>>

wrapping_mul(a, b) ==
    LET ll    == Mul16(a[1], b[1])
        cross == Mul16(a[1], b[2])[1] + Mul16(a[2], b[1])[1]
    IN  <<ll[1], (ll[2] + cross) % H>>

(* u32::saturating_add and saturating_sub: what an accumulator that does   *)
(* not wrap would use.                                                     *)
saturating_add(a, b) ==
    IF a[2] + b[2] + (a[1] + b[1]) \div H >= H THEN <<H - 1, H - 1>>
    ELSE wrapping_add(a, b)

saturating_sub(a, b) ==
    IF a[2] < b[2] \/ (a[2] = b[2] /\ a[1] < b[1]) THEN <<0, 0>>
    ELSE wrapping_sub(a, b)

(* a >= b for u32.                                                         *)
u32_ge(a, b) == a[2] > b[2] \/ (a[2] = b[2] /\ a[1] >= b[1])

(* Truncating a / d for u32, d # 0.  With d >= 2^31 the quotient is 0 or   *)
(* 1.  Otherwise a = 2h + bit with h < 2^31, h = q0 * d + r0, and          *)
(* a / d = 2 * q0 + (1 if 2 * r0 + bit >= d else 0).                       *)
u32_div(a, d) ==
    IF d[2] >= H \div 2
    THEN (IF u32_ge(a, d) THEN <<1, 0>> ELSE <<0, 0>>)
    ELSE LET dn  == d[2] * H + d[1]
             h   == a[2] * (H \div 2) + a[1] \div 2
             bit == a[1] % 2
             q0  == h \div dn
             r0  == h % dn
             c   == IF r0 >= dn - r0 - bit THEN 1 ELSE 0
             lo  == 2 * (q0 % H) + c
         IN  <<lo % H, (2 * (q0 \div H) + lo \div H) % H>>

(* a / d in usize arithmetic for a dividend that was a u32: a divisor of   *)
(* 2^32 or more gives 0, a smaller one divides as in 32 bits.              *)
usize_div_of_u32(a, d) ==
    IF d[3] # 0 \/ d[4] # 0 THEN <<0, 0, 0, 0>>
    ELSE u32_as_usize(u32_div(a, usize_as_u32(d)))

(* What an operation that panics returns: no u32 is the empty sequence.    *)
Panic == <<>>

----------------------------------------------------------------------------
(* The scalar accumulator BlurU32(pub u32): a u32.                         *)

BlurU32_add_saturating(a, b) == saturating_add(a, b)
BlurU32_add(a, b) == wrapping_add(a, b)

BlurU32_sub_saturating(a, b) == saturating_sub(a, b)
BlurU32_sub(a, b) == wrapping_sub(a, b)

BlurU32_mul(a, rhs) == wrapping_mul(a, usize_as_u32(rhs))

(* wrapping_div panics on a zero divisor, and `rhs as u32` is zero for     *)
(* every multiple of 2^32.                                                 *)
BlurU32_div(a, rhs) ==
    IF usize_as_u32(rhs) = <<0, 0>> THEN Panic
    ELSE u32_div(a, usize_as_u32(rhs))

(* The lane-packed accumulator u32xN(pub Simd<u32, N>): a sequence of N    *)
(* u32.  The operators of Simd<u32, N> wrap in every lane.                 *)

u32xN_add(v, w) == [i \in 1..Len(v) |-> wrapping_add(v[i], w[i])]

u32xN_sub(v, w) == [i \in 1..Len(v) |-> wrapping_sub(v[i], w[i])]

u32xN_mul(v, rhs) == [i \in 1..Len(v) |-> wrapping_mul(v[i], usize_as_u32(rhs))]

(* e as usize / rhs, then as u32; the division panics on rhs = 0.          *)
u32xN_div(v, rhs) ==
    IF rhs = <<0, 0, 0, 0>> THEN Panic
    ELSE [i \in 1..Len(v) |-> usize_as_u32(usize_div_of_u32(v[i], rhs))]

(* The channel types an Argb is instantiated with.                         *)
ChannelAdd(T, a, b) == IF T = "BlurU32" THEN BlurU32_add(a, b) ELSE u32xN_add(a, b)
ChannelSub(T, a, b) == IF T = "BlurU32" THEN BlurU32_sub(a, b) ELSE u32xN_sub(a, b)
ChannelMul(T, a, rhs) == IF T = "BlurU32" THEN BlurU32_mul(a, rhs) ELSE u32xN_mul(a, rhs)
ChannelDiv(T, a, rhs) == IF T = "BlurU32" THEN BlurU32_div(a, rhs) ELSE u32xN_div(a, rhs)
ChannelDefault(T) == IF T = "BlurU32" THEN <<0, 0>> ELSE [i \in 1..LANES |-> <<0, 0>>]

----------------------------------------------------------------------------
(* Argb<T>([T; 4]): alpha, red, green, blue.                               *)

Argb_from_u32_le(argb) ==
    LET b == to_le_bytes(argb) IN [c \in 1..4 |-> u8_as_u32(b[c])]
Argb_from_u32(argb) ==
    LET b == to_be_bytes(argb) IN [c \in 1..4 |-> u8_as_u32(b[c])]

u32_from_Argb(x) == from_be_bytes([c \in 1..4 |-> u32_as_u8(x[c])])

Argb_from_array(values) ==
    LET arrs == [i \in 1..Len(values) |-> to_be_bytes(values[i])]
    IN  [c \in 1..4 |-> [i \in 1..Len(values) |-> u8_as_u32(arrs[i][c])]]

array_from_Argb(value) ==
    [i \in 1..Len(value[1]) |-> from_be_bytes([c \in 1..4 |-> u32_as_u8(value[c][i])])]

(* self.0[3] += g: the blue channel takes the green one.                   *)
Argb_add_slip(T, x, y) ==
    [c \in 1..4 |-> ChannelAdd(T, x[c], y[IF c = 4 THEN 3 ELSE c])]
Argb_add(T, x, y) == [c \in 1..4 |-> ChannelAdd(T, x[c], y[c])]
Argb_sub(T, x, y) == [c \in 1..4 |-> ChannelSub(T, x[c], y[c])]
Argb_mul(T, x, rhs) == [c \in 1..4 |-> ChannelMul(T, x[c], rhs)]
Argb_div(T, x, rhs) == [c \in 1..4 |-> ChannelDiv(T, x[c], rhs)]
Argb_default(T) == [c \in 1..4 |-> ChannelDefault(T)]

----------------------------------------------------------------------------
(* The StackBlurrable values the engine is instantiated with: BlurU32,     *)
(* Argb<BlurU32> and Argb<u32xN>, and the operations the trait requires.   *)

ChannelOf(B) == IF B = "Argb<BlurU32>" THEN "BlurU32" ELSE "u32xN"

default(B) == IF B = "BlurU32" THEN <<0, 0>> ELSE Argb_default(ChannelOf(B))
add(B, x, y) == IF B = "BlurU32" THEN BlurU32_add(x, y) ELSE Argb_add(ChannelOf(B), x, y)
sub(B, x, y) == IF B = "BlurU32" THEN BlurU32_sub(x, y) ELSE Argb_sub(ChannelOf(B), x, y)
mul(B, x, rhs) == IF B = "BlurU32" THEN BlurU32_mul(x, rhs) ELSE Argb_mul(ChannelOf(B), x, rhs)
div(B, x, rhs) == IF B = "BlurU32" THEN BlurU32_div(x, rhs) ELSE Argb_div(ChannelOf(B), x, rhs)

----------------------------------------------------------------------------
(* The streaming engine StackBlur (module iter).  It keeps the weighted    *)
(* sum `sum` of the 2r+1 taps around the current position, the difference  *)
(* `rate` between the r+1 values ahead and the r+1 values behind, and in   *)
(* `ops` the 2r+2 changes of `rate` that are already known: a value that   *)
(* enters the window adds itself to rate, takes itself away twice r+1      *)
(* steps later and adds itself back 2r+2 steps later.  The window is       *)
(* pre-filled with the first value and flushed with the last.              *)
(*                                                                         *)
(* `src` is what the wrapped iterator yields, in order, read when the      *)
(* engine pulls it; `pos` counts the items pulled.                         *)

None == <<>>
Some(x) == <<x>>

Min(a, b) == IF a < b THEN a ELSE b

(* VecDeque::pop_front (what is left) and VecDeque::push_back.             *)
pop_front(q) == [j \in 1..(Len(q) - 1) |-> q[j + 1]]
push_back(q, x) == [j \in 1..(Len(q) + 1) |-> IF j <= Len(q) THEN q[j] ELSE x]

StackBlur_new(B, ops) ==
    [sum |-> default(B), rate |-> default(B), ops |-> ops, pos |-> 0,
     trailing |-> 0, last |-> default(B), exhausted |-> FALSE, done |-> TRUE]

(* ops.resize_with(2r+2) without the clear: what is left of the last run   *)
(* stays.                                                                  *)
ResetOps_keep(B, r, ops) ==
    [j \in 1..(2 * r + 2) |-> IF j <= Len(ops) THEN ops[j] ELSE default(B)]
(* ops.clear(); ops.resize_with(2r+2, default)                             *)
ResetOps(B, r, ops) == [j \in 1..(2 * r + 2) |-> default(B)]

(* One step of the pre-fill: the item at distance k ahead of the first     *)
(* output has weight r+1-k.                                                *)
RECURSIVE Prefill(_, _, _, _, _)
Prefill(B, r, st, items, k) ==
    IF k > r THEN st
    ELSE LET item == items[k + 1]
         IN  Prefill(B, r,
                [sum  |-> add(B, st.sum, mul(B, item, usize(r + 1 - k))),
                 rate |-> add(B, st.rate, item),
                 ops  |-> [st.ops EXCEPT
                             ![k + 1] = sub(B, @, mul(B, item, usize(2))),
                             ![k + r + 2] = add(B, @, item)]],
                items, k + 1)

(* The rest of init once the window is pre-filled: n items were pulled.    *)
Primed(e, st, n, items, r) ==
    [sum |-> st.sum, rate |-> st.rate, ops |-> st.ops,
     pos |-> e.pos + n, trailing |-> n - 1, last |-> items[n],
     exhausted |-> n < r + 1, done |-> FALSE]

(* The window before the first output: r copies of the first item behind   *)
(* it, and ahead the items pulled, the last of them repeated when the      *)
(* input ends early.                                                       *)
InitWindow(B, r, e, n, items, cleared) ==
    Primed(e,
           Prefill(B, r,
                   [sum  |-> mul(B, items[1], usize((r * (r + 1)) \div 2)),
                    rate |-> sub(B, default(B), mul(B, items[1], usize(r + 1))),
                    ops  |-> [j \in 1..(2 * r + 2) |->
                                IF j <= r + 1 THEN add(B, cleared[j], items[1])
                                ELSE cleared[j]]],
                   items, 0),
           n, items, r)

PulledAtInit(r, e, src) == Min(r + 1, Len(src) - e.pos)

StackBlur_init(B, r, e, src) ==
    IF e.pos >= Len(src)
    THEN [e EXCEPT !.ops = ResetOps(B, r, e.ops), !.sum = default(B),
                   !.rate = default(B), !.trailing = 0, !.exhausted = TRUE,
                   !.done = TRUE]
    ELSE InitWindow(B, r, e, PulledAtInit(r, e, src),
                    [k \in 1..(r + 1) |-> src[e.pos + Min(k, PulledAtInit(r, e, src))]],
                    ResetOps(B, r, e.ops))

(* The step after the output was taken: the window moves on by one, over   *)
(* `item`, the next input or the last one again.                           *)
Advance(B, r, e, rate1, canRead, item) ==
    [sum  |-> add(B, add(B, e.sum, rate1), item),
     rate |-> add(B, rate1, item),
     ops  |-> push_back([pop_front(e.ops) EXCEPT
                           ![r + 1] = sub(B, @, mul(B, item, usize(2)))],
                        item),
     pos  |-> IF canRead THEN e.pos + 1 ELSE e.pos,
     trailing |-> IF canRead \/ e.trailing = 0 THEN e.trailing ELSE e.trailing - 1,
     last |-> item,
     exhausted |-> ~canRead,
     done |-> ~canRead /\ e.trailing = 0]

CanRead(e, src) == ~e.exhausted /\ e.pos < Len(src)

Emit(B, r, e, src) ==
    IF e.done THEN [blur |-> e, out |-> None]
    ELSE [blur |-> Advance(B, r, e, add(B, e.rate, e.ops[1]), CanRead(e, src),
                           IF CanRead(e, src) THEN src[e.pos + 1] ELSE e.last),
          out |-> Some(div(B, e.sum, usize_mul(r + 1, r + 1)))]

(* Iterator::next: [blur |-> the engine after the call, out |-> Option].   *)
StackBlur_next(B, r, e, src) ==
    Emit(B, r, IF e.done THEN StackBlur_init(B, r, e, src) ELSE e, src)

(* The whole output of an engine over a fixed input, pulled until None.    *)
RECURSIVE Drain(_, _, _, _, _)
Drain(B, r, nx, src, acc) ==
    IF nx.out = None THEN acc
    ELSE Drain(B, r, StackBlur_next(B, r, nx.blur, src), src,
               push_back(acc, nx.out[1]))

BlurAll(B, r, src, ops) ==
    Drain(B, r, StackBlur_next(B, r, StackBlur_new(B, ops), src), src, <<>>)

----------------------------------------------------------------------------
(* The traversal of the buffer.  A coordinate is <<row, column>>.  A       *)
(* window is one row or column (Single) or LANES adjacent ones walked in   *)
(* lockstep (Simd), each place of which is an array of LANES coordinates;  *)
(* the lines left over when their number is no multiple of LANES follow    *)
(* as Single windows.                                                      *)

Coord(axis, line, k) == IF axis = "rows" THEN <<line, k>> ELSE <<k, line>>
Lines(axis, img) == IF axis = "rows" THEN img.height ELSE img.width
LineLen(axis, img) == IF axis = "rows" THEN img.width ELSE img.height

SingleWindow(axis, line, len) ==
    [kind |-> "Single", places |-> [k \in 1..len |-> Coord(axis, line, k)]]

SimdWindow(axis, g, len) ==
    [kind |-> "Simd",
     places |-> [k \in 1..len |->
                   [l \in 1..LANES |-> Coord(axis, (g - 1) * LANES + l, k)]]]

IterWindows(axis, img) ==
    [i \in 1..Lines(axis, img) |-> SingleWindow(axis, i, LineLen(axis, img))]

SimdIterWindows(axis, img) ==
    LET n == Lines(axis, img)
        g == n \div LANES
    IN  [i \in 1..(g + (n % LANES)) |->
           IF i <= g THEN SimdWindow(axis, i, LineLen(axis, img))
           ELSE SingleWindow(axis, g * LANES + (i - g), LineLen(axis, img))]

Traverse(e, axis, img) ==
    IF e = "simd_blur_argb" THEN SimdIterWindows(axis, img) ELSE IterWindows(axis, img)

Other(axis) == IF axis = "rows" THEN "cols" ELSE "rows"

Reversed(w) == [w EXCEPT !.places = [k \in 1..Len(w.places) |->
                                       w.places[Len(w.places) + 1 - k]]]

(* The two passes of blur and simd_blur, in order.                         *)
Axis_swapped(p) == IF p = "pass1" THEN "cols" ELSE "rows"
Axis(p) == IF p = "pass1" THEN "rows" ELSE "cols"

(* The writer and the reader handed to blur_windows / simd_blur_windows.   *)
WriterWindows(e, axis, img) == Traverse(e, axis, img)

ReaderWindows_other(e, axis, img) == Traverse(e, Other(axis), img)
ReaderWindows_rev(e, axis, img) ==
    [i \in 1..Len(Traverse(e, axis, img)) |-> Reversed(Traverse(e, axis, img)[i])]
ReaderWindows(e, axis, img) == Traverse(e, axis, img)

(* writer.zip(reader)                                                      *)
NumWindows(e, axis, img) ==
    Min(Len(WriterWindows(e, axis, img)), Len(ReaderWindows(e, axis, img)))

(* The type the engine of a window runs on, and the closures of the entry  *)
(* points: blur is called with the identity on BlurU32 pixels, blur_argb   *)
(* and simd_blur_argb with the conversions of Argb.                        *)
BlurrableOf(e, kind) ==
    IF e = "blur" THEN "BlurU32"
    ELSE IF kind = "Simd" THEN "Argb<u32xN>" ELSE "Argb<BlurU32>"

to_blurrable(e, kind, buf, pl) ==
    IF e = "blur" THEN buf[pl]
    ELSE IF kind = "Simd" THEN Argb_from_array([l \in 1..LANES |-> buf[pl[l]]])
    ELSE Argb_from_u32(buf[pl])

to_pixel(e, kind, b) ==
    IF e = "blur" THEN b
    ELSE IF kind = "Simd" THEN array_from_Argb(b)
    ELSE u32_from_Argb(b)

(* read.map(to_blurrable) over the buffer as it is now.                    *)
Source(e, w, buf) ==
    [k \in 1..Len(w.places) |-> to_blurrable(e, w.kind, buf, w.places[k])]

(* The coordinates of a place, and *place = pixel for each of them.        *)
CoordsOf(kind, pl) == IF kind = "Simd" THEN {pl[l] : l \in 1..LANES} ELSE {pl}

Store(buf, kind, pl, px) ==
    IF kind = "Simd"
    THEN [c \in DOMAIN buf |->
            IF c \in CoordsOf(kind, pl)
            THEN px[CHOOSE l \in 1..LANES : pl[l] = c]
            ELSE buf[c]]
    ELSE [buf EXCEPT ![pl] = px]

----------------------------------------------------------------------------
(* The drivers as a state machine that steps place by place.               *)

PixelSamples == { <<0, 0>>, <<255, 0>>, <<16385, 65152>> }

Entries == {"blur", "blur_argb", "simd_blur_argb"}

Shapes ==
    {s \in (0..MaxWidth) \X (0..MaxHeight) : s[1] * s[2] <= MaxArea}

Images ==
    UNION {{[width |-> s[1], height |-> s[2], buf |-> b] :
              b \in [(1..s[2]) \X (1..s[1]) -> PixelSamples]} : s \in Shapes}

NoBlur == <<>>
Idle == [name |-> "none"]

Running == pc \in {"pass1", "pass2"}

Init ==
    /\ entry \in Entries
    /\ radius \in 0..MaxRadius
    /\ buffer \in Images
    /\ pc = "pass1" /\ win = 1 /\ place = 0 /\ blur_it = NoBlur
    /\ ops_simd = <<>> /\ ops_single = <<>>
    /\ hist = [orig |-> buffer.buf, mid |-> buffer.buf, winIn |-> <<>>,
               outs |-> <<>>, written |-> {}, stale |-> FALSE, rowWrites |-> 0,
               colRead |-> FALSE, midSeen |-> TRUE, opsAtNew |-> <<>>]
    /\ op = Idle

(* StackBlur::new(read.map(..), radius, &mut ops) for the next pair of the *)
(* zip; the deque is the lane-packed or the scalar one by the window kind. *)
Begin(rd, ops) ==
    /\ blur_it' = <<StackBlur_new(BlurrableOf(entry, rd.kind), ops)>>
    /\ hist' = [hist EXCEPT !.winIn = Source(entry, rd, buffer.buf),
                            !.outs = <<>>, !.written = {}, !.opsAtNew = ops]

(* The match of simd_blur_windows pairs a Simd writer with a Simd reader    *)
(* and a Single one with a Single one; any other pair is unreachable!().   *)
NewWindow ==
    /\ Running /\ blur_it = NoBlur
    /\ win <= NumWindows(entry, Axis(pc), buffer)
    /\ IF WriterWindows(entry, Axis(pc), buffer)[win].kind
            # ReaderWindows(entry, Axis(pc), buffer)[win].kind
       THEN /\ pc' = "panicked"
            /\ UNCHANGED <<place, blur_it, hist>>
       ELSE /\ Begin(ReaderWindows(entry, Axis(pc), buffer)[win],
                     IF ReaderWindows(entry, Axis(pc), buffer)[win].kind = "Simd"
                     THEN ops_simd ELSE ops_single)
            /\ place' = 0
            /\ pc' = pc
    /\ UNCHANGED <<entry, radius, buffer, win, ops_simd, ops_single, op>>

(* The coordinates the engine read while it went from pos `from` to `to`.  *)
ReadBetween(rd, from, to) ==
    UNION {CoordsOf(rd.kind, rd.places[k]) : k \in (from + 1)..to}

(* *place = to_pixel(blur.next().unwrap()): the unwrap panics on None.     *)
WriteBack(wr, rd, pl, nx, read) ==
    IF nx.out = None
    THEN /\ pc' = "panicked"
         /\ UNCHANGED <<buffer, place, blur_it, hist>>
    ELSE /\ buffer' = [buffer EXCEPT !.buf =
                         Store(@, wr.kind, pl, to_pixel(entry, wr.kind, nx.out[1]))]
         /\ place' = place + 1
         /\ blur_it' = <<nx.blur>>
         /\ hist' = [hist EXCEPT
               !.outs = push_back(@, nx.out[1]),
               !.written = @ \cup CoordsOf(wr.kind, pl),
               !.stale = @ \/ read \cap hist.written # {},
               !.rowWrites = IF Axis(pc) = "rows"
                             THEN @ + Cardinality(CoordsOf(wr.kind, pl))
                             ELSE @,
               !.colRead = @ \/ (Axis(pc) = "cols" /\ read # {}),
               !.midSeen = @ /\ (Axis(pc) = "cols" =>
                                   \A c \in read : buffer.buf[c] = hist.mid[c])]
         /\ pc' = pc

Pull(wr, rd, nx) ==
    WriteBack(wr, rd, wr.places[place + 1], nx,
              ReadBetween(rd, blur_it[1].pos, nx.blur.pos))

Step(wr, rd) ==
    /\ place < Len(wr.places)
    /\ Pull(wr, rd, StackBlur_next(BlurrableOf(entry, rd.kind), radius, blur_it[1],
                                   Source(entry, rd, buffer.buf)))

(* One step of write.for_each.                                             *)
WritePlace ==
    /\ Running /\ blur_it # NoBlur
    /\ Step(WriterWindows(entry, Axis(pc), buffer)[win],
            ReaderWindows(entry, Axis(pc), buffer)[win])
    /\ UNCHANGED <<entry, radius, win, ops_simd, ops_single, op>>

(* The end of one iteration of the zip: blur is dropped and the borrow of  *)
(* the deque ends.                                                         *)
EndWindow ==
    /\ Running /\ blur_it # NoBlur
    /\ place = Len(WriterWindows(entry, Axis(pc), buffer)[win].places)
    /\ IF ReaderWindows(entry, Axis(pc), buffer)[win].kind = "Simd"
       THEN ops_simd' = blur_it[1].ops /\ UNCHANGED ops_single
       ELSE ops_single' = blur_it[1].ops /\ UNCHANGED ops_simd
    /\ blur_it' = NoBlur
    /\ win' = win + 1
    /\ UNCHANGED <<entry, radius, buffer, pc, place, hist, op>>

(* The first call of blur_windows returns and the second begins.           *)
NextPass ==
    /\ pc = "pass1" /\ blur_it = NoBlur
    /\ win > NumWindows(entry, Axis(pc), buffer)
    /\ pc' = "pass2" /\ win' = 1 /\ place' = 0
    /\ hist' = [hist EXCEPT !.mid = buffer.buf, !.winIn = <<>>, !.outs = <<>>,
                            !.written = {}]
    /\ UNCHANGED <<entry, radius, buffer, blur_it, ops_simd, ops_single, op>>

Return ==
    /\ pc = "pass2" /\ blur_it = NoBlur
    /\ win > NumWindows(entry, Axis(pc), buffer)
    /\ pc' = "done"
    /\ UNCHANGED <<entry, radius, buffer, win, place, blur_it, ops_simd,
                   ops_single, hist, op>>

Next == NewWindow \/ WritePlace \/ EndWindow \/ NextPass \/ Return

Spec == Init /\ [][Next]_vars

----------------------------------------------------------------------------
(* The accumulator operations and the adapter as pure functions: the       *)
(* operands are drawn in OpsInit and each action applies one operation,    *)
(* to the lanes of a u32xN and to a BlurU32 per lane.                      *)

U32Samples ==
    { <<0, 0>>, <<1, 0>>, <<255, 0>>, <<65535, 65535>>, <<0, 32768>>,
      <<22136, 4660>>, <<16385, 65152>> }

RadiusSamples == {0, 1, 4096, 65535, 65536}

(* The counts an engine of radius r multiplies and divides by.             *)
CountSamples ==
    {usize_mul(r + 1, r + 1) : r \in RadiusSamples}
        \cup {usize(r + 1) : r \in RadiusSamples} \cup {usize(2)}

OpsInit ==
    /\ entry = "none" /\ radius = 0
    /\ buffer = [width |-> 0, height |-> 0, buf |-> <<>>]
    /\ pc = "ops" /\ win = 0 /\ place = 0 /\ blur_it = <<>>
    /\ ops_simd = <<>> /\ ops_single = <<>> /\ hist = <<>>
    /\ \E a \in U32Samples, b \in U32Samples, rhs \in CountSamples :
          op = [name |-> "input", x |-> <<a, b>>, y |-> <<b, a>>, rhs |-> rhs,
                serial |-> <<>>, simd |-> <<>>]

driver_vars == <<entry, radius, buffer, pc, win, place, blur_it, ops_simd,
                 ops_single, hist>>

OpAdd ==
    /\ pc = "ops" /\ op.name = "input"
    /\ op' = [op EXCEPT !.name = "add",
                !.serial = [i \in 1..LANES |-> BlurU32_add(op.x[i], op.y[i])],
                !.simd = u32xN_add(op.x, op.y)]
    /\ UNCHANGED driver_vars

OpSub ==
    /\ pc = "ops" /\ op.name = "input"
    /\ op' = [op EXCEPT !.name = "sub",
                !.serial = [i \in 1..LANES |-> BlurU32_sub(op.x[i], op.y[i])],
                !.simd = u32xN_sub(op.x, op.y)]
    /\ UNCHANGED driver_vars

OpMul ==
    /\ pc = "ops" /\ op.name = "input"
    /\ op' = [op EXCEPT !.name = "mul",
                !.serial = [i \in 1..LANES |-> BlurU32_mul(op.x[i], op.rhs)],
                !.simd = u32xN_mul(op.x, op.rhs)]
    /\ UNCHANGED driver_vars

OpDiv ==
    /\ pc = "ops" /\ op.name = "input"
    /\ op' = [op EXCEPT !.name = "div",
                !.serial = [i \in 1..LANES |-> BlurU32_div(op.x[i], op.rhs)],
                !.simd = u32xN_div(op.x, op.rhs)]
    /\ UNCHANGED driver_vars

(* Unpack and repack: each lane alone, and the array of lanes.             *)
OpRoundTrip ==
    /\ pc = "ops" /\ op.name = "input"
    /\ op' = [op EXCEPT !.name = "roundtrip",
                !.serial = [i \in 1..LANES |-> u32_from_Argb(Argb_from_u32(op.x[i]))],
                !.simd = array_from_Argb(Argb_from_array(op.x))]
    /\ UNCHANGED driver_vars

OpsNext == OpAdd \/ OpSub \/ OpMul \/ OpDiv \/ OpRoundTrip

OpsSpec == OpsInit /\ [][OpsNext]_vars

----------------------------------------------------------------------------
(* What the properties are stated with.                                    *)

InWindow == Running /\ blur_it # NoBlur

CurReader == ReaderWindows(entry, Axis(pc), buffer)[win]
CurB == BlurrableOf(entry, CurReader.kind)

(* The window was written to its end.                                      *)
WindowDone == InWindow /\ place = Len(hist.winIn)

Uniform(in) == Len(in) >= 1 /\ \A k \in 1..Len(in) : in[k] = in[1]

(* The u32 accumulators a value is made of.                                *)
Components(B, x) ==
    IF B = "BlurU32" THEN {x}
    ELSE IF B = "Argb<BlurU32>" THEN {x[c] : c \in 1..4}
    ELSE {x[c][l] : c \in 1..4, l \in 1..LANES}

(* v * c <= u32::MAX, for a count c below 2^15.                            *)
FitsU32(v, c) == v[2] * c + (v[1] * c) \div H < H

Clamp(i, n) == IF i < 1 THEN 1 ELSE IF i > n THEN n ELSE i
Abs(x) == IF x < 0 THEN -x ELSE x

(* The triangular average computed directly: the taps i-r .. i+r with      *)
(* weights 1 .. r+1 .. 1, positions outside the input clamped to its       *)
(* ends, the sum divided by (r+1)^2.                                       *)
RECURSIVE WeightedSum(_, _, _, _, _)
WeightedSum(B, r, in, i, k) ==
    IF k > r THEN default(B)
    ELSE add(B, mul(B, in[Clamp(i + k, Len(in))], usize(r + 1 - Abs(k))),
             WeightedSum(B, r, in, i, k + 1))

Reference(B, r, in, i) ==
    div(B, WeightedSum(B, r, in, i, -r), usize_mul(r + 1, r + 1))

(* One pass computed window by window from the buffer before it, each      *)
(* window by an engine with a deque of its own.                            *)
RECURSIVE StoreAll(_, _, _, _, _)
StoreAll(e, wr, outs, buf, k) ==
    IF k > Len(wr.places) THEN buf
    ELSE StoreAll(e, wr, outs,
                  Store(buf, wr.kind, wr.places[k], to_pixel(e, wr.kind, outs[k])),
                  k + 1)

RECURSIVE PassFrom(_, _, _, _, _)
PassFrom(e, axis, r, img, i) ==
    IF i > Len(Traverse(e, axis, img)) THEN img.buf
    ELSE PassFrom(e, axis, r,
            [img EXCEPT !.buf =
               StoreAll(e, Traverse(e, axis, img)[i],
                        BlurAll(BlurrableOf(e, Traverse(e, axis, img)[i].kind), r,
                                Source(e, Traverse(e, axis, img)[i], img.buf), <<>>),
                        img.buf, 1)],
            i + 1)

PassOf(e, axis, r, img, buf) == PassFrom(e, axis, r, [img EXCEPT !.buf = buf], 1)

----------------------------------------------------------------------------
(* C1: the engine yields exactly as many outputs as its input has items,   *)
(* one per place in order: no unwrap of the driver meets None, and after   *)
(* the last place the next pull is None.                                   *)
LengthPreserved ==
    /\ pc # "panicked"
    /\ InWindow => Len(hist.outs) = place
    /\ WindowDone =>
          StackBlur_next(CurB, radius, blur_it[1],
                         Source(entry, CurReader, buffer.buf)).out = None

LengthPreservedWitness ==
    WindowDone /\ place >= 2 /\ radius >= 2

(* C2: with radius 0 and identity closures every element of the buffer     *)
(* keeps its value, throughout both passes and at the end.                 *)
IdentityAtRadiusZero ==
    (Running \/ pc = "done") /\ entry = "blur" /\ radius = 0
        => buffer.buf = hist.orig

IdentityAtRadiusZeroWitness ==
    /\ pc = "done" /\ entry = "blur" /\ radius = 0
    /\ buffer.width = 2 /\ buffer.height = 2
    /\ buffer.buf[<<1, 1>>] = <<16385, 65152>>
    /\ buffer.buf[<<2, 2>>] = <<255, 0>>

WeightedAverage ==
    InWindow => \A k \in 1..Len(hist.outs) :
                   hist.outs[k] = Reference(CurB, radius, hist.winIn, k)

WeightedAverageWitness ==
    /\ WindowDone /\ place >= 3 /\ radius >= 1
    /\ hist.winIn[1] # hist.winIn[2]
    /\ hist.outs[1] # hist.winIn[1]
    /\ hist.outs[3] # hist.winIn[3]

(* C5: no column is read before every row is written, every value a        *)
(* column read observes is a row-pass output; when the row pass ends the   *)
(* buffer is the row pass of the original, and the final buffer is the     *)
(* column pass of that.                                                    *)
PassesSequenced ==
    /\ hist.colRead => hist.rowWrites = buffer.width * buffer.height
    /\ hist.midSeen
    /\ pc = "pass2" /\ win = 1 /\ blur_it = NoBlur =>
          /\ hist.mid = buffer.buf
          /\ buffer.buf = PassOf(entry, "rows", radius, buffer, hist.orig)
    /\ pc = "done" =>
          buffer.buf = PassOf(entry, "cols", radius, buffer, hist.mid)

PassesSequencedWitness ==
    /\ pc = "done" /\ radius >= 1
    /\ buffer.width >= 2 /\ buffer.height >= 2
    /\ hist.mid # hist.orig /\ buffer.buf # hist.mid

(* C9: whatever earlier windows left in the scratch deque, a window's      *)
(* outputs are those of an engine given a new, empty deque.                *)
SameOutputs(outs, in, fresh) ==
    /\ Len(fresh) = Len(in)
    /\ \A k \in 1..Len(outs) : outs[k] = fresh[k]

ScratchReuse ==
    InWindow => SameOutputs(hist.outs, hist.winIn,
                            BlurAll(CurB, radius, hist.winIn, <<>>))

ScratchReuseWitness ==
    /\ WindowDone /\ place >= 2 /\ radius >= 1
    /\ \E j \in 1..Len(hist.opsAtNew) : hist.opsAtNew[j] # default(CurB)
    /\ hist.outs[1] # default(CurB)

(* C10: within a window the place j is written only after the engine has   *)
(* pulled input j, and nothing the engine pulls was written before in the  *)
(* same window.                                                            *)
InPlaceSafe ==
    /\ ~hist.stale
    /\ InWindow => blur_it[1].pos >= place

InPlaceSafeWitness ==
    /\ WindowDone /\ place >= 3 /\ radius = 1 /\ pc = "pass1"
    /\ \E c \in hist.written : buffer.buf[c] # hist.orig[c]

----------------------------------------------------------------------------
(* C6 (its last clause): every lane of a u32xN operation equals the        *)
(* BlurU32 operation on that lane with the same count.                     *)
LaneParity ==
    op.name \in {"add", "sub", "mul", "div"} => op.simd = op.serial

(* C7: unpacking a packed value and repacking it returns it, for one       *)
(* value and for an array of lanes, and the channels are the bytes of      *)
(* 0xAARRGGBB from the most significant down.                              *)
ChannelsInOrder(x, argb) ==
    /\ argb[1] = <<x[2] \div 256, 0>>
    /\ argb[2] = <<x[2] % 256, 0>>
    /\ argb[3] = <<x[1] \div 256, 0>>
    /\ argb[4] = <<x[1] % 256, 0>>

ArgbRoundTrip ==
    op.name = "roundtrip" =>
        /\ op.serial = op.x
        /\ op.simd = op.x
        /\ \A i \in 1..LANES :
              /\ ChannelsInOrder(op.x[i], Argb_from_u32(op.x[i]))
              /\ ChannelsInOrder(op.x[i],
                                 [c \in 1..4 |-> Argb_from_array(op.x)[c][i]])

ArgbRoundTripWitness ==
    op.name = "roundtrip" /\ op.x = << <<22136, 4660>>, <<16385, 65152>> >>

(* C8 (its last clause): no accumulator operation panics, whatever the     *)
(* operands and the count.                                                 *)
NoPanic ==
    op.name \in {"add", "sub", "mul", "div"} =>
        /\ op.simd # Panic
        /\ \A i \in 1..LANES : op.serial[i] # Panic

====
